---- MODULE Spec2Model ----
(***************************************************************************)
(* A model of src/src/render.rs: the PixelBuffer, the Renderer and its     *)
(* State (swap-chain, texture layer, quad geometry), and the wgpu calls    *)
(* the handlers make (write_texture, create_swap_chain, get_current_frame, *)
(* the render pass and its validation).                                    *)
(*                                                                         *)
(* A Vec<Pixel> is held as its length and its pixels at the indices of     *)
(* Tracked: every index of a small vector, and for a large one the first   *)
(* indices and the two indices at the texture's end.  Every operation of   *)
(* the code on pixels works index by index, so what is said of the tracked *)
(* indices is what the code does at each index.                            *)
(***************************************************************************)
EXTENDS Integers, Sequences, FiniteSets, TLC

VARIABLES
    status,   \* "Uninitialized" (no Renderer yet), "Ready", or "Panicked" (the thread unwound)
    pixels,   \* Renderer.pixels : PixelBuffer
    state,    \* Renderer.state : State
    texture,  \* the texels of state.layers[0].texture, as a pass submitted now reads them
    frame,    \* what the last render() did with the swap-chain frame and the queue
    drawn,    \* history: the pixel buffer as the most recent upload read it
    last      \* the last operation called, its argument and its result

vars == <<status, pixels, state, texture, frame, drawn, last>>

-----------------------------------------------------------------------------
\* Bounds of the model.

\* Window and resize dimensions are drawn from 0..MaxSize.
MaxSize == 2

\* A run creates at most this many swap-chains (State::new's and the resizes').
MaxSwapChains == 3

\* The stand-alone PixelBuffer is built with W, H in 1..MaxW.
MaxW == 2

-----------------------------------------------------------------------------
\* Program constants.

\* let (width, height) = (128, 128);
LayerWidth == 128
LayerHeight == 128

\* std::mem::size_of::<Vertex>(): [f32; 3] + [f32; 2]
VertexSize == 20

LayerPixels == LayerWidth * LayerHeight

VERTICES ==
    << [position |-> <<-1, 1, 0>>,  tex_coords |-> <<0, 0>>],
       [position |-> <<1, 1, 0>>,   tex_coords |-> <<1, 0>>],
       [position |-> <<-1, -1, 0>>, tex_coords |-> <<0, 1>>],
       [position |-> <<1, -1, 0>>,  tex_coords |-> <<1, 1>>] >>

INDICES == <<0, 2, 3, 0, 3, 1>>

-----------------------------------------------------------------------------
\* Pixel and PixelBuffer.

\* A cleared pixel taken as all zero bytes (Zeroable) instead of opaque black.
Pixel_zeroed == [r |-> 0, g |-> 0, b |-> 0, a |-> 0]

Pixel_black == [r |-> 0, g |-> 0, b |-> 0, a |-> 255]

\* The fields laid out blue first, as the swap-chain's Bgra format has them.
PixelBytes_bgra(p) == <<p.b, p.g, p.r, p.a>>

\* #[repr(C)] struct Pixel { r, g, b, a }: the bytes of a pixel, in memory order.
PixelBytes(p) == <<p.r, p.g, p.b, p.a>>

\* The pixel that four bytes in memory order are (the inverse cast).
PixelOfBytes(bs) == [r |-> bs[1], g |-> bs[2], b |-> bs[3], a |-> bs[4]]

\* The indices at which the model holds a vector's pixels.
Tracked == (0 .. (MaxW * MaxW - 1)) \cup {LayerPixels - 1, LayerPixels}

Stored(len) == {i \in Tracked : i < len}

\* (0..cap).map(|_| Pixel::black()).collect()
with_capacity(cap) ==
    [len |-> cap, inner |-> [i \in Stored(cap) |-> Pixel_black]]

\* &mut self.inner[index]: indexing panics when index >= len.
flap_in_bounds(pb, index) == index >= 0 /\ index < pb.len

\* The buffer after the caller stores p through the reference flap(index) returns.
flap(pb, index, p) ==
    IF index \in DOMAIN pb.inner
        THEN [pb EXCEPT !.inner[index] = p]
        ELSE pb

\* bytemuck::cast_slice(&self.inner): the bytes of the pixels, one after the other.
deref(pb) ==
    [len |-> 4 * pb.len,
     at  |-> [k \in {4 * i + c : i \in DOMAIN pb.inner, c \in 0 .. 3} |->
                 PixelBytes(pb.inner[k \div 4])[(k % 4) + 1]]]

-----------------------------------------------------------------------------
\* The wgpu calls.

\* queue.write_texture(copy view, data, layout, size): the copy is rejected
\* when data is shorter than the layout and the size need.
write_texture_required(layout, size) ==
    layout.offset + layout.bytes_per_row * (size.height - 1) + 4 * size.width

write_texture_valid(data, layout, size) ==
    /\ data.len >= write_texture_required(layout, size)
    /\ layout.bytes_per_row >= 4 * size.width
    /\ layout.rows_per_image >= size.height

\* The texels after the copy: texel (x, y) is read at
\* offset + y * bytes_per_row + 4 * x of data; bytes of data past the last
\* row are not read.
write_texture(data, layout, size) ==
    [t \in Stored(size.width * size.height) |->
        LET x == t % size.width
            y == t \div size.width
            o == layout.offset + y * layout.bytes_per_row + 4 * x
        IN  PixelOfBytes(<<data.at[o], data.at[o + 1], data.at[o + 2], data.at[o + 3]>>)]

\* device.create_swap_chain(&surface, &sc_desc) is rejected for a zero area.
create_swap_chain_valid(desc) == desc.width > 0 /\ desc.height > 0

\* The swap-chain made from desc; id tells one swap-chain object from another.
create_swap_chain(id, desc) ==
    [id |-> id, usage |-> desc.usage, format |-> desc.format,
     width |-> desc.width, height |-> desc.height,
     present_mode |-> desc.present_mode]

\* bytemuck::cast_slice(INDICES) of a &[u16]: two bytes an index, low byte first.
cast_slice_u16(s) ==
    [k \in 1 .. 2 * Len(s) |->
        IF k % 2 = 1 THEN s[(k + 1) \div 2] % 256 ELSE s[k \div 2] \div 256]

\* The bytes an index takes under an index format.
IndexSize(format) == IF format = "Uint16" THEN 2 ELSE 4

\* The number of indices a bound index buffer holds under a format.
index_limit(buffer, format) == Len(buffer.contents) \div IndexSize(format)

RECURSIVE LittleEndian(_, _, _)
LittleEndian(bytes, from, n) ==
    IF n = 0 THEN 0
    ELSE bytes[from] + 256 * LittleEndian(bytes, from + 1, n - 1)

\* The k-th index (from 0) the draw call reads from the bound index buffer.
read_index(buffer, format, k) ==
    LittleEndian(buffer.contents, k * IndexSize(format) + 1, IndexSize(format))

-----------------------------------------------------------------------------
\* State.

Size(w, h) == [width |-> w, height |-> h]

\* State::new(window), with the window's inner size.
State_new(size) ==
    LET sc_desc == [usage |-> "RENDER_ATTACHMENT", format |-> "Bgra8UnormSrgb",
                    width |-> size.width, height |-> size.height,
                    present_mode |-> "Fifo"]
        texture_size == [width |-> LayerWidth, height |-> LayerHeight, depth |-> 1]
    IN  [surface |-> "surface",
         device |-> "device",
         queue |-> "queue",
         sc_desc |-> sc_desc,
         swap_chain |-> create_swap_chain(1, sc_desc),
         size |-> size,
         render_pipeline |->
             [vertex_entry |-> "main", fragment_entry |-> "main",
              array_stride |-> VertexSize, topology |-> "TriangleList",
              front_face |-> "Ccw", cull_mode |-> "Back",
              target_format |-> "Bgra8UnormSrgb"],
         vertex_buffer |-> [contents |-> VERTICES, usage |-> "VERTEX"],
         index_buffer |-> [contents |-> cast_slice_u16(INDICES), usage |-> "INDEX"],
         num_indices |-> Len(INDICES),
         diffuse_bind_group |->
             [texture_view |-> "diffuse_texture", sampler |-> "Nearest/ClampToEdge"],
         layers |-> << [texture |-> "diffuse_texture",
                        width |-> LayerWidth, height |-> LayerHeight,
                        texture_size |-> texture_size] >>]

\* The layout and size State::new and Renderer::draw hand to write_texture.
upload_layout(w, h) == [offset |-> 0, bytes_per_row |-> 4 * w, rows_per_image |-> h]

\* State::new's upload of PixelBuffer::with_capacity(128 * 128).
initial_texture ==
    write_texture(deref(with_capacity(LayerWidth * LayerHeight)),
                  upload_layout(LayerWidth, LayerHeight),
                  [width |-> LayerWidth, height |-> LayerHeight, depth |-> 1])

\* A resize that also rebuilds the texture layer at the window's size.
resize_rebuilding_layer(s, new_size) ==
    LET d == [s.sc_desc EXCEPT !.width = new_size.width, !.height = new_size.height]
    IN  [s EXCEPT !.size = new_size,
                  !.sc_desc = d,
                  !.swap_chain = create_swap_chain(s.swap_chain.id + 1, d),
                  !.layers[1].width = new_size.width,
                  !.layers[1].height = new_size.height]

\* A resize that creates the swap-chain before it updates the descriptor.
resize_stale_descriptor(s, new_size) ==
    LET d == [s.sc_desc EXCEPT !.width = new_size.width, !.height = new_size.height]
    IN  [s EXCEPT !.size = new_size,
                  !.sc_desc = d,
                  !.swap_chain = create_swap_chain(s.swap_chain.id + 1, s.sc_desc)]

\* A resize that updates the size and the descriptor and keeps the old swap-chain.
resize_without_swap_chain(s, new_size) ==
    LET d == [s.sc_desc EXCEPT !.width = new_size.width, !.height = new_size.height]
    IN  [s EXCEPT !.size = new_size, !.sc_desc = d]

\* State::resize(new_size): the fields after the three assignments and the
\* swap-chain that create_swap_chain is asked for.
resize(s, new_size) ==
    LET d == [s.sc_desc EXCEPT !.width = new_size.width, !.height = new_size.height]
    IN  [s EXCEPT !.size = new_size,
                  !.sc_desc = d,
                  !.swap_chain = create_swap_chain(s.swap_chain.id + 1, d)]

-----------------------------------------------------------------------------
\* The state before any Renderer exists, and no frame.

NoState == [size |-> Size(0, 0)]
NoTexture == <<>>
NoFrame ==
    [acquired |-> FALSE, held |-> FALSE, presented |-> FALSE,
     draws |-> <<>>, index_format |-> "none", submitted |-> FALSE,
     sampled |-> <<>>]

-----------------------------------------------------------------------------
\* The inputs the model draws.

\* The (w, h) handed to Renderer::new: a single pixel, the layer's dimension,
\* and one more than it.
NewDims == {1, LayerWidth, LayerWidth + 1}

\* The window's inner size at State::new.
WindowSizes == {Size(w, h) : w \in 1 .. MaxSize, h \in 1 .. MaxSize}

\* The sizes a resize event carries; some platforms send zeros.
ResizeSizes == {Size(w, h) : w \in 0 .. MaxSize, h \in 0 .. MaxSize}

\* The pixel values the driver writes.
PixelVals == {Pixel_black, [r |-> 1, g |-> 2, b |-> 3, a |-> 4]}

\* The indices the driver writes at in a Renderer's buffer.
FlapIdx == {0, LayerPixels - 1, LayerPixels}

\* What swap_chain.get_current_frame() answers.
AcquireResults == {"Ok", "Timeout", "Outdated"}

\* The record of a call; again tells that it repeats the call before it.
Call(op, arg, result) ==
    [op |-> op, arg |-> arg, result |-> result,
     again |-> (last.op = op /\ last.arg = arg)]

FirstCall(op, arg) == [op |-> op, arg |-> arg, result |-> "ok", again |-> FALSE]

-----------------------------------------------------------------------------
\* Renderer::new(w, h, window)

Init ==
    \E w \in NewDims, h \in NewDims, size \in WindowSizes :
        /\ status = "Ready"
        /\ pixels = with_capacity(w * h)
        /\ state = State_new(size)
        /\ texture = initial_texture
        /\ frame = NoFrame
        /\ drawn = with_capacity(LayerWidth * LayerHeight)
        /\ last = FirstCall("new", Size(w, h))

\* renderer.pixels().flap(index) = p, or buffer.flap(index) = p
Flap(index, p) ==
    /\ status # "Panicked"
    /\ IF flap_in_bounds(pixels, index)
           THEN /\ pixels' = flap(pixels, index, p)
                /\ last' = Call("flap", [index |-> index, value |-> p], "ok")
                /\ UNCHANGED status
           ELSE /\ status' = "Panicked"
                /\ last' = Call("flap", [index |-> index, value |-> p], "panic")
                /\ UNCHANGED pixels
    /\ UNCHANGED <<state, texture, frame, drawn>>

\* Renderer::draw(): one write_texture of the whole pixel buffer; a rejected
\* write is a wgpu validation error, which the default handler turns into a panic.
Draw ==
    /\ status = "Ready"
    /\ LET layer == state.layers[1]
           data == deref(pixels)
           layout == upload_layout(layer.width, layer.height)
       IN  IF write_texture_valid(data, layout, layer.texture_size)
               THEN /\ texture' = write_texture(data, layout, layer.texture_size)
                    /\ drawn' = pixels
                    /\ last' = Call("draw", pixels.len, "copied")
                    /\ UNCHANGED status
               ELSE /\ status' = "Panicked"
                    /\ last' = Call("draw", pixels.len, "error")
                    /\ UNCHANGED <<texture, drawn>>
    /\ UNCHANGED <<pixels, state, frame>>

\* The render pass State::render records: the index buffer is bound as Uint32
\* and one draw_indexed(0..num_indices, 0, 0..1) is recorded.
render_pass(s) ==
    [pipeline |-> s.render_pipeline,
     bind_group |-> s.diffuse_bind_group,
     vertex_buffer |-> s.vertex_buffer,
     index_buffer |-> s.index_buffer,
     index_format |-> "Uint32",
     draws |-> << [start |-> 0, end |-> s.num_indices,
                   base_vertex |-> 0, instances |-> 1] >>]

\* A draw whose index range ends past the bound buffer's index count is a
\* validation error, raised when the pass ends.
render_pass_valid(pass) ==
    \A k \in 1 .. Len(pass.draws) :
        pass.draws[k].end <= index_limit(pass.index_buffer, pass.index_format)

\* Dropping the SwapChainTexture presents it, unless the thread is panicking.
drop_frame(f, panicking) ==
    [f EXCEPT !.held = FALSE, !.presented = ~panicking]

\* Renderer::render() / State::render()
Render(acquire) ==
    /\ status = "Ready"
    /\ IF acquire # "Ok"
           THEN \* .expect("Timeout?") panics; no frame was acquired
                /\ status' = "Panicked"
                /\ frame' = NoFrame
                /\ last' = Call("render", acquire, "panic")
           ELSE LET pass == render_pass(state)
                    got == [NoFrame EXCEPT !.acquired = TRUE, !.held = TRUE,
                                           !.draws = pass.draws,
                                           !.index_format = pass.index_format]
                IN  IF render_pass_valid(pass)
                        THEN /\ frame' = drop_frame(
                                    [got EXCEPT !.submitted = TRUE, !.sampled = texture],
                                    FALSE)
                             /\ last' = Call("render", acquire, "ok")
                             /\ UNCHANGED status
                        ELSE /\ frame' = drop_frame(got, TRUE)
                             /\ last' = Call("render", acquire, "panic")
                             /\ status' = "Panicked"
    /\ UNCHANGED <<pixels, state, texture, drawn>>

\* Renderer::resize(new_size) / State::resize(new_size): a rejected
\* create_swap_chain panics after the three fields are assigned.
Resize(new_size) ==
    /\ status = "Ready"
    /\ state.swap_chain.id < MaxSwapChains
    /\ LET s == resize(state, new_size)
       IN  IF create_swap_chain_valid(s.sc_desc)
               THEN /\ state' = s
                    /\ last' = Call("resize", new_size, "ok")
                    /\ UNCHANGED status
               ELSE /\ state' = [s EXCEPT !.swap_chain = state.swap_chain]
                    /\ last' = Call("resize", new_size, "panic")
                    /\ status' = "Panicked"
    /\ UNCHANGED <<pixels, texture, frame, drawn>>

DoFlap == \E index \in FlapIdx, p \in PixelVals : Flap(index, p)
DoRender == \E acquire \in AcquireResults : Render(acquire)
DoResize == \E new_size \in ResizeSizes : Resize(new_size)

Next == DoFlap \/ Draw \/ DoRender \/ DoResize

Spec == Init /\ [][Next]_vars

-----------------------------------------------------------------------------
\* The PixelBuffer on its own: PixelBuffer::with_capacity(W * H), then writes
\* through flap.

InitPixelBuffer ==
    \E w \in 1 .. MaxW, h \in 1 .. MaxW :
        /\ status = "Uninitialized"
        /\ pixels = with_capacity(w * h)
        /\ state = NoState
        /\ texture = NoTexture
        /\ frame = NoFrame
        /\ drawn = NoTexture
        /\ last = FirstCall("with_capacity", Size(w, h))

FlapPixelBuffer == \E index \in 0 .. pixels.len, p \in PixelVals : Flap(index, p)

NextPixelBuffer == FlapPixelBuffer

SpecPixelBuffer == InitPixelBuffer /\ [][NextPixelBuffer]_vars

-----------------------------------------------------------------------------
\* Properties.

ZeroSize(size) == size.width = 0 \/ size.height = 0

\* What of a swap-chain object its descriptor decides (all but its identity).
SwapChainConfig(sc) ==
    [usage |-> sc.usage, format |-> sc.format, width |-> sc.width,
     height |-> sc.height, present_mode |-> sc.present_mode]

\* The fields of State a resize has no business with.
Survivors(s) ==
    [surface |-> s.surface, device |-> s.device, queue |-> s.queue,
     render_pipeline |-> s.render_pipeline, vertex_buffer |-> s.vertex_buffer,
     index_buffer |-> s.index_buffer, num_indices |-> s.num_indices,
     diffuse_bind_group |-> s.diffuse_bind_group, layers |-> s.layers,
     usage |-> s.sc_desc.usage, format |-> s.sc_desc.format,
     present_mode |-> s.sc_desc.present_mode]

\* The texels a full upload of buffer pb to the layer gives.
TexelsOf(pb) == [t \in Stored(LayerPixels) \cap DOMAIN pb.inner |-> pb.inner[t]]

\* C1: a resize with a zero width or height leaves the stored size, the
\* swap-chain descriptor and the swap-chain object as they were, and does
\* not end in a fatal error.
C1_ZeroResizeIsNoOp ==
    [][(last'.op = "resize" /\ ZeroSize(last'.arg))
        => (state' = state /\ status' = "Ready")]_vars

\* C2: a draw() whose pixel buffer does not hold width * height pixels of the
\* layer raises an error and copies nothing.
C2_MismatchedUploadIsRejected ==
    (last.op = "draw" /\ last.arg # state.layers[1].width * state.layers[1].height)
        => last.result = "error"

\* C3: a render() whose frame acquisition fails leaves the renderer Ready
\* (no crash) and submits nothing.
C3_AcquireFailureIsNotFatal ==
    (last.op = "render" /\ last.arg # "Ok")
        => (status = "Ready" /\ ~frame.submitted)

\* C4: a render() that acquires a frame submits a pass that samples the
\* pixel buffer as it was at the most recent draw() (the all-black buffer of
\* State::new when there was none).
C4_RenderShowsLastDraw ==
    (last.op = "render" /\ frame.acquired)
        => (frame.submitted /\ frame.sampled = TexelsOf(drawn) /\ drawn.len = LayerPixels)

\* C5: a resize to a non-zero size changes nothing but the stored size, the
\* descriptor's width and height and the swap-chain: device, queue, pipeline,
\* layer, bind group, geometry buffers, index count, the texture's contents
\* and the pixel buffer are as before.
C5_ResizeKeepsTheRest ==
    [][(last'.op = "resize" /\ ~ZeroSize(last'.arg))
        => /\ Survivors(state') = Survivors(state)
           /\ pixels' = pixels
           /\ texture' = texture
           /\ state'.size = last'.arg
           /\ state'.sc_desc.width = last'.arg.width
           /\ state'.sc_desc.height = last'.arg.height]_vars

\* A run of resizes to non-zero sizes has happened, over a written pixel buffer.
C5_Witness ==
    /\ last.op = "resize" /\ last.result = "ok" /\ ~ZeroSize(last.arg)
    /\ state.swap_chain.id = MaxSwapChains
    /\ state.size = last.arg
    /\ \E i \in DOMAIN pixels.inner : pixels.inner[i] # Pixel_black

\* C6: a second resize(w, h) right after a resize(w, h) leaves the descriptor,
\* the stored size and the swap-chain's configuration as the first left them.
C6_ResizeIdempotent ==
    [][(last'.op = "resize" /\ last'.again)
        => /\ state'.sc_desc = state.sc_desc
           /\ state'.size = state.size
           /\ SwapChainConfig(state'.swap_chain) = SwapChainConfig(state.swap_chain)
           /\ SwapChainConfig(state'.swap_chain) = state'.sc_desc
           /\ status' = status]_vars

\* The second of two equal resizes has been done.
C6_Witness ==
    /\ last.op = "resize" /\ last.again /\ last.result = "ok"
    /\ state.swap_chain.id = MaxSwapChains
    /\ state.size = Size(MaxSize, 1)
    /\ SwapChainConfig(state.swap_chain) = state.sc_desc

\* C7: a render() that acquires a frame records one indexed draw of the
\* range 0..6, the range lies within the indices the bound buffer holds under
\* the bound index format, and the indices read are those of INDICES.
C7_DrawCoversTheSixIndices ==
    (last.op = "render" /\ frame.acquired)
        => /\ Len(frame.draws) = 1
           /\ frame.draws[1].start = 0
           /\ frame.draws[1].end = 6
           /\ frame.draws[1].end <= index_limit(state.index_buffer, frame.index_format)
           /\ [k \in 1 .. 6 |-> read_index(state.index_buffer, frame.index_format, k - 1)]
                  = INDICES

\* C8: after a write of (r, g, b, a) through flap(i), the byte view is 4 * count
\* bytes with no gap, holds r, g, b, a at 4i .. 4i+3, and is as before elsewhere.
C8_FlapThenBytes ==
    [][(last'.op = "flap" /\ last'.result = "ok")
        => \A before \in {deref(pixels)}, after \in {deref(pixels')} :
               LET i == last'.arg.index
                   p == last'.arg.value
               IN  /\ pixels'.len = pixels.len
                   /\ after.len = 4 * pixels.len
                   /\ DOMAIN after.at = 0 .. (after.len - 1)
                   /\ after.at[4 * i] = p.r
                   /\ after.at[4 * i + 1] = p.g
                   /\ after.at[4 * i + 2] = p.b
                   /\ after.at[4 * i + 3] = p.a
                   /\ \A k \in DOMAIN after.at :
                          (k \div 4) # i => after.at[k] = before.at[k]]_vars

\* A non-black pixel has been written at the last index of a buffer of
\* several pixels, over an earlier write elsewhere.
C8_Witness ==
    /\ last.op = "flap" /\ last.result = "ok"
    /\ pixels.len = MaxW * MaxW
    /\ last.arg.index = pixels.len - 1
    /\ last.arg.value # Pixel_black
    /\ pixels.inner[0] # Pixel_black
    /\ deref(pixels).at[4 * last.arg.index + 3] = 4

\* C9: with_capacity(W * H) gives exactly W * H pixels, each opaque black.
C9_WithCapacityAllBlack ==
    last.op = "with_capacity"
        => /\ pixels.len = last.arg.width * last.arg.height
           /\ DOMAIN pixels.inner = 0 .. (last.arg.width * last.arg.height - 1)
           /\ \A i \in DOMAIN pixels.inner :
                  pixels.inner[i] = [r |-> 0, g |-> 0, b |-> 0, a |-> 255]

\* A buffer of MaxW * MaxW pixels has just been built.
C9_Witness ==
    /\ last.op = "with_capacity"
    /\ last.arg = Size(MaxW, MaxW)
    /\ pixels.len = MaxW * MaxW
    /\ Cardinality(DOMAIN pixels.inner) = MaxW * MaxW

\* C10: a frame that a render() acquired is no longer held after that
\* render(), and it was presented.
C10_AcquiredFrameIsPresented ==
    (last.op = "render" /\ frame.acquired)
        => (~frame.held /\ frame.presented)

\* C11: the pixel buffer of a Renderer holds exactly layer.width * layer.height
\* pixels, so the bytes draw() hands to write_texture are bytes_per_row *
\* rows_per_image of the upload layout.
C11_BufferMatchesLayer ==
    status = "Ready"
        => LET layer == state.layers[1]
               layout == upload_layout(layer.width, layer.height)
           IN  /\ pixels.len = layer.width * layer.height
               /\ deref(pixels).len = layout.bytes_per_row * layout.rows_per_image

\* The swap-chain is the one made from the current descriptor, and the
\* descriptor's width and height are the stored size.
SurfaceValid(s) ==
    /\ SwapChainConfig(s.swap_chain) = s.sc_desc
    /\ s.size = Size(s.sc_desc.width, s.sc_desc.height)

\* C12: a render() runs only from a state whose swap-chain was made from the
\* current descriptor (descriptor, stored size and swap-chain dimensions
\* agree), and they still agree when it has acquired its frame; no render()
\* runs where a resize has updated the descriptor and not the swap-chain.
C12_RenderOnlyOnValidSurface ==
    [][(last'.op = "render")
        => (status = "Ready" /\ SurfaceValid(state) /\ SurfaceValid(state'))]_vars

\* A render() has acquired a frame from a swap-chain that a resize made, at
\* a size the window did not start with.
C12_Witness ==
    /\ last.op = "render" /\ frame.acquired
    /\ state.swap_chain.id > 1
    /\ state.size = Size(MaxSize, 1)
    /\ SurfaceValid(state)

====
